---- MODULE Spec2Model ----
(***************************************************************************)
(* SpaceDigest: the in-memory hierarchical index (hierarchical-index.js),  *)
(* the keyword learner (keyword-learner.js) and the request handler that   *)
(* ties them together (server.js).                                         *)
(*                                                                         *)
(* Representation.                                                         *)
(*  - A word is a string.  A topic or subtopic name is the sequence of its *)
(*    whitespace-separated words, e.g. <<"Neutron", "Stars">>.             *)
(*  - A keyword, a token and a phrase are strings; a phrase is built with  *)
(*    string concatenation exactly as the code builds it.                  *)
(*  - A JavaScript Map is a sequence of [k, v] entries in insertion order; *)
(*    a JavaScript Set is a duplicate-free sequence in insertion order.    *)
(*  - The composite key `${topic}::${subtopic}` is the pair                *)
(*    <<topic, subtopic>>; names never contain "::", so split('::') gives  *)
(*    the two components back.                                             *)
(***************************************************************************)
EXTENDS Integers, Sequences, FiniteSets, TLC

VARIABLES
  files,        \* database/topics/<dir>/<file>.json, in readdir order
  topicFiles,   \* database/topics/<file>.json (the per-topic layout)
  index,        \* server.js `index`: the HierarchicalIndex instance
  learningLog,  \* KeywordLearner.learningLog
  clock,        \* Date.now(), in requests handled since the model starts
  trace,        \* the calls and console lines of the last request or call
  ret,          \* the last call made on the index or the learner, and its result
  res           \* the last HTTP response of POST /api/get-sources

vars == <<files, topicFiles, index, learningLog, clock, trace, ret, res>>

(***************************************************************************)
(* Program constants                                                       *)
(***************************************************************************)
minQueryCount == 3

maxKeywordsPerSubtopic == 50

LogCap == 100

PhraseWeight == 5

KeywordWeight == 1

TopicBoost == 10

ServedLimit == 50

MinWordLength == 3

MinKeywordLength == 3

stopWords ==
  {"the", "and", "that", "this", "with", "from", "have", "been", "were",
   "are", "for", "can", "will", "but", "not"}

(***************************************************************************)
(* Bounds of the model                                                     *)
(***************************************************************************)
MaxWords == 4

MaxLimit == 3

MaxLog == 4

\* length of the queries a reload is probed with
MaxProbeWords == 2

(***************************************************************************)
(* Sequences, Maps and Sets                                                *)
(***************************************************************************)
Range(s) == {s[i] : i \in 1..Len(s)}

SeqsUpTo(S, n) == UNION {[1..m -> S] : m \in 0..n}

MapHas(m, key) == \E i \in 1..Len(m) : m[i].k = key

MapIdx(m, key) == CHOOSE i \in 1..Len(m) : m[i].k = key

MapGet(m, key) == m[MapIdx(m, key)].v

MapSet(m, key, val) ==
  IF MapHas(m, key)
    THEN [m EXCEPT ![MapIdx(m, key)] = [k |-> key, v |-> val]]
    ELSE Append(m, [k |-> key, v |-> val])

MapKeys(m) == [i \in 1..Len(m) |-> m[i].k]

SetAdd(s, x) == IF x \in Range(s) THEN s ELSE Append(s, x)

(***************************************************************************)
(* Strings                                                                 *)
(***************************************************************************)
\* String.prototype.toLowerCase on one word
Lower(w) ==
  CASE w = "Neutron" -> "neutron"
    [] w = "Stars" -> "stars"
    [] w = "Mass" -> "mass"
    [] w = "Limits" -> "limits"
    [] w = "Pulsars" -> "pulsars"
    [] w = "Black" -> "black"
    [] w = "Holes" -> "holes"
    [] w = "Event" -> "event"
    [] w = "Horizons" -> "horizons"
    [] w = "The" -> "the"
    [] OTHER -> w

\* does the whole word consist of letters a-z after lower-casing
Alphabetic(w) == w \notin {"42"}

\* a[i] + ' ' + a[i+1] (+ ' ' + a[i+2]): the words of a joined by one space
RECURSIVE Join(_)
Join(ws) ==
  IF Len(ws) = 1 THEN ws[1] ELSE ws[1] \o " " \o Join(Tail(ws))

LowerAll(ws) == [i \in 1..Len(ws) |-> Lower(ws[i])]

\* topic.toLowerCase().split(/\s+/)
TopicWords(topic) == LowerAll(topic)

\* `${topicName}::${subtopicName}`
FullKey(topicName, subtopicName) == <<topicName, subtopicName>>

\* key.split('::')
SplitKey(key) == [topic |-> key[1], subtopic |-> key[2]]

(***************************************************************************)
(* HierarchicalIndex                                                       *)
(***************************************************************************)
EmptyIndex ==
  [topics |-> <<>>, subtopics |-> <<>>, keywordIndex |-> <<>>,
   sources |-> <<>>,
   stats |-> [totalTopics |-> 0, totalSubtopics |-> 0, totalSources |-> 0]]

\* source.arxiv || source.doi || source.title
SourceId(source) ==
  IF source.arxiv # "" THEN source.arxiv
  ELSE IF source.doi # "" THEN source.doi
  ELSE source.title

\* for (const keyword of keywords) {
\*   if (!has(keyword)) set(keyword, new Set()); get(keyword).add(fullSubtopicKey) }
\* The loop adds the key to the Set of every keyword that has an entry, and
\* appends an entry for every other keyword, in the order the list first
\* names it.
IndexKeywords(keywordIndex, keywords, fullSubtopicKey) ==
  LET updated ==
        [i \in 1..Len(keywordIndex) |->
           IF keywordIndex[i].k \in Range(keywords)
             THEN [k |-> keywordIndex[i].k,
                   v |-> SetAdd(keywordIndex[i].v, fullSubtopicKey)]
             ELSE keywordIndex[i]]
      IsNew(i) == /\ ~MapHas(keywordIndex, keywords[i])
                  /\ \A j \in 1..(i - 1) : keywords[j] # keywords[i]
      positions == SelectSeq([i \in 1..Len(keywords) |-> i], IsNew)
  IN updated \o [j \in 1..Len(positions) |->
                   [k |-> keywords[positions[j]], v |-> <<fullSubtopicKey>>]]

\* for (const source of subtopicData.sources) this.sources.set(sourceId, ...)
RECURSIVE StoreSources(_, _, _, _)
StoreSources(sources, list, topicName, subtopicName) ==
  IF list = <<>> THEN sources
  ELSE LET source == Head(list)
       IN StoreSources(
            MapSet(sources, SourceId(source),
                   [arxiv |-> source.arxiv, doi |-> source.doi,
                    title |-> source.title,
                    topic |-> topicName, subtopic |-> subtopicName]),
            Tail(list), topicName, subtopicName)

SubtopicEntry(topicName, subtopicData) ==
  [name |-> subtopicData.name, topic |-> topicName,
   keywords |-> subtopicData.keywords,
   sourceCount |-> Len(subtopicData.sources)]

RECURSIVE BuildSubtopics(_, _, _)
BuildSubtopics(idx, topicName, subs) ==
  IF subs = <<>> THEN idx
  ELSE LET subtopicData == Head(subs)
           fullSubtopicKey == FullKey(topicName, subtopicData.name)
       IN BuildSubtopics(
            [idx EXCEPT
               !.subtopics = MapSet(@, fullSubtopicKey,
                                    SubtopicEntry(topicName, subtopicData)),
               !.keywordIndex = IndexKeywords(@, subtopicData.keywords,
                                              fullSubtopicKey),
               !.sources = StoreSources(@, subtopicData.sources, topicName,
                                        subtopicData.name)],
            topicName, Tail(subs))

RECURSIVE BuildTopics(_, _)
BuildTopics(idx, topics) ==
  IF topics = <<>> THEN idx
  ELSE LET topicData == Head(topics)
           withTopic ==
             [idx EXCEPT !.topics =
                MapSet(@, topicData.topic,
                       [name |-> topicData.topic,
                        subtopicCount |-> Len(topicData.subtopics)])]
       IN BuildTopics(BuildSubtopics(withTopic, topicData.topic,
                                     topicData.subtopics),
                      Tail(topics))

buildFromJSON(data) ==
  LET built == BuildTopics(EmptyIndex, data.topics)
  IN [built EXCEPT !.stats =
        [totalTopics |-> Len(built.topics),
         totalSubtopics |-> Len(built.subtopics),
         totalSources |-> Len(built.sources)]]

\* buildFromJSON on data whose subtopic records may lack a list: reading
\* subtopicData.sources.length (line 50) or iterating subtopicData.keywords
\* (line 54) of a record without that list raises a TypeError, which nothing
\* in buildFromJSON catches; the result is the index as the exception leaves
\* it, and whether it was raised
RECURSIVE BuildSubtopicsOrThrow(_, _, _)
BuildSubtopicsOrThrow(idx, topicName, subs) ==
  IF subs = <<>> THEN [index |-> idx, threw |-> FALSE]
  ELSE LET subtopicData == Head(subs)
           fullSubtopicKey == FullKey(topicName, subtopicData.name)
       IN IF "sources" \notin DOMAIN subtopicData
            THEN [index |-> idx, threw |-> TRUE]
          ELSE IF "keywords" \notin DOMAIN subtopicData
            THEN [index |->
                    [idx EXCEPT !.subtopics =
                       MapSet(@, fullSubtopicKey,
                              [name |-> subtopicData.name, topic |-> topicName,
                               sourceCount |-> Len(subtopicData.sources)])],
                  threw |-> TRUE]
          ELSE BuildSubtopicsOrThrow(
                 BuildSubtopics(idx, topicName, <<subtopicData>>),
                 topicName, Tail(subs))

RECURSIVE BuildTopicsOrThrow(_, _)
BuildTopicsOrThrow(idx, topics) ==
  IF topics = <<>> THEN [index |-> idx, threw |-> FALSE]
  ELSE LET topicData == Head(topics)
           withTopic ==
             [idx EXCEPT !.topics =
                MapSet(@, topicData.topic,
                       [name |-> topicData.topic,
                        subtopicCount |-> Len(topicData.subtopics)])]
           out == BuildSubtopicsOrThrow(withTopic, topicData.topic,
                                        topicData.subtopics)
       IN IF out.threw THEN out
          ELSE BuildTopicsOrThrow(out.index, Tail(topics))

\* index.buildFromJSON(data) on the instance idx
buildFromJSONOn(idx, data) ==
  LET out == BuildTopicsOrThrow(idx, data.topics)
  IN IF out.threw THEN out
     ELSE [index |->
             [out.index EXCEPT !.stats =
                [totalTopics |-> Len(out.index.topics),
                 totalSubtopics |-> Len(out.index.subtopics),
                 totalSources |-> Len(out.index.sources)]],
           threw |-> FALSE]

\* the 2-word and 3-word windows of the token list, in the order the loop
\* pushes them; a window is kept as its words, PhraseKey joins them
RECURSIVE BuildPhrases(_, _)
BuildPhrases(keywords, i) ==
  IF i > Len(keywords) - 1 THEN <<>>
  ELSE <<SubSeq(keywords, i, i + 1)>>
       \o (IF i < Len(keywords) - 1 THEN <<SubSeq(keywords, i, i + 2)>> ELSE <<>>)
       \o BuildPhrases(keywords, i + 1)

\* phrase.toLowerCase(), phrase being the words joined by single spaces
PhraseKey(window) == Join(LowerAll(window))

\* for (const subtopic of subtopics) subtopicScores.set(subtopic, (get || 0) + w)
RECURSIVE ScoreHits(_, _, _)
ScoreHits(subtopicScores, subtopicSet, weight) ==
  IF subtopicSet = <<>> THEN subtopicScores
  ELSE LET subtopic == Head(subtopicSet)
           old == IF MapHas(subtopicScores, subtopic)
                    THEN MapGet(subtopicScores, subtopic) ELSE 0
       IN ScoreHits(MapSet(subtopicScores, subtopic, old + weight),
                    Tail(subtopicSet), weight)

\* one scoring loop: look every key up in the keyword index
RECURSIVE ScoreLookups(_, _, _, _)
ScoreLookups(subtopicScores, keywordIndex, keys, weight) ==
  IF keys = <<>> THEN subtopicScores
  ELSE LET hit == MapHas(keywordIndex, Head(keys))
           next == IF hit
                     THEN ScoreHits(subtopicScores,
                                    MapGet(keywordIndex, Head(keys)), weight)
                     ELSE subtopicScores
       IN ScoreLookups(next, keywordIndex, Tail(keys), weight)

\* the test on the topic name as written, not lower-cased
TopicNameMatchCaseSensitive(topic, keywords) ==
  \E i \in 1..Len(keywords) : Lower(keywords[i]) \in Range(topic)

\* does some query keyword equal a word of the topic name
TopicNameMatch(topic, keywords) ==
  \E i \in 1..Len(keywords) : Lower(keywords[i]) \in Range(TopicWords(topic))

\* a boost that adds 10 for every matching keyword
BoostScoresPerToken(subtopicScores, keywords) ==
  [i \in 1..Len(subtopicScores) |->
     LET e == subtopicScores[i]
         matches == {j \in 1..Len(keywords) :
                       Lower(keywords[j]) \in Range(TopicWords(SplitKey(e.k).topic))}
     IN [k |-> e.k, v |-> e.v + TopicBoost * Cardinality(matches)]]

\* the boost loop: every matching keyword sets the entry to score + 10, score
\* being the value read when the entry was visited
BoostScores(subtopicScores, keywords) ==
  [i \in 1..Len(subtopicScores) |->
     LET e == subtopicScores[i]
     IN [k |-> e.k,
         v |-> IF TopicNameMatch(SplitKey(e.k).topic, keywords)
                 THEN e.v + TopicBoost ELSE e.v]]

\* an insertion that puts e in front of the elements of equal score
InsertByRelevanceUnstable(sorted, e) ==
  LET before == SelectSeq(sorted, LAMBDA a : a.v > e.v)
      after == SelectSeq(sorted, LAMBDA a : a.v <= e.v)
  IN before \o <<e>> \o after

\* put e behind every element that does not sort after it
InsertByRelevance(sorted, e) ==
  LET before == SelectSeq(sorted, LAMBDA a : a.v >= e.v)
      after == SelectSeq(sorted, LAMBDA a : a.v < e.v)
  IN before \o <<e>> \o after

\* the entries left in Map order
SortByRelevanceNone(sorted, entries) == sorted \o entries

\* Array.prototype.sort((a, b) => b[1] - a[1]): stable, descending
RECURSIVE SortByRelevance(_, _)
SortByRelevance(sorted, entries) ==
  IF entries = <<>> THEN sorted
  ELSE SortByRelevance(InsertByRelevance(sorted, Head(entries)), Tail(entries))

\* the scores without the loop over the individual keywords
ScoredByPhrasesOnly(idx, keywords) ==
  LET phrases == BuildPhrases(keywords, 1)
      phraseKeys == [i \in 1..Len(phrases) |-> PhraseKey(phrases[i])]
      byPhrase == ScoreLookups(<<>>, idx.keywordIndex, phraseKeys, PhraseWeight)
  IN BoostScores(byPhrase, keywords)

\* the scores Map as it stands before the sort
ScoredSubtopics(idx, keywords) ==
  LET phrases == BuildPhrases(keywords, 1)
      phraseKeys == [i \in 1..Len(phrases) |-> PhraseKey(phrases[i])]
      byPhrase == ScoreLookups(<<>>, idx.keywordIndex, phraseKeys, PhraseWeight)
      byKeyword == ScoreLookups(byPhrase, idx.keywordIndex, LowerAll(keywords),
                                KeywordWeight)
  IN BoostScores(byKeyword, keywords)

\* a lookup that starts an empty set for every key the Keyword Index lacks
RECURSIVE IndexAfterLookupsCreating(_, _)
IndexAfterLookupsCreating(idx, keys) ==
  IF keys = <<>> THEN idx
  ELSE IndexAfterLookupsCreating(
         IF MapHas(idx.keywordIndex, Head(keys)) THEN idx
         ELSE [idx EXCEPT !.keywordIndex = MapSet(@, Head(keys), <<>>)],
         Tail(keys))

\* the index as the lookups of searchByKeywords leave it: has() and get() on
\* this.keywordIndex, for every key, write nothing
IndexAfterLookups(idx, keys) == idx

\* the instance after searchByKeywords(keywords): the phrase keys and the
\* lower-cased keywords are looked up, subtopicScores is a local
IndexAfterSearch(idx, keywords) ==
  LET phrases == BuildPhrases(keywords, 1)
      phraseKeys == [i \in 1..Len(phrases) |-> PhraseKey(phrases[i])]
  IN IndexAfterLookups(IndexAfterLookups(idx, phraseKeys), LowerAll(keywords))

\* the instance after getSourcesBySubtopic: the loop reads this.sources
IndexAfterGetSources(idx, topicName, subtopicName, limit) == idx

searchByKeywords(idx, keywords) ==
  LET sorted == SortByRelevance(<<>>, ScoredSubtopics(idx, keywords))
  IN [i \in 1..Len(sorted) |->
        [topic |-> SplitKey(sorted[i].k).topic,
         subtopic |-> SplitKey(sorted[i].k).subtopic,
         relevance |-> sorted[i].v]]

\* the loop over this.sources with its break
RECURSIVE CollectSources(_, _, _, _, _)
CollectSources(entries, topicName, subtopicName, limit, acc) ==
  IF entries = <<>> THEN acc
  ELSE LET source == Head(entries).v
       IN IF source.topic = topicName /\ source.subtopic = subtopicName
            THEN LET pushed == Append(acc, source)
                 IN IF Len(pushed) >= limit THEN pushed
                    ELSE CollectSources(Tail(entries), topicName, subtopicName,
                                        limit, pushed)
            ELSE CollectSources(Tail(entries), topicName, subtopicName, limit, acc)

getSourcesBySubtopic(idx, topicName, subtopicName, limit) ==
  CollectSources(idx.sources, topicName, subtopicName, limit, <<>>)

\* the first loop without the deletion of the sets that became empty
RemoveTopicKeysKeepEmpty(keywordIndex, topicName) ==
  [i \in 1..Len(keywordIndex) |->
     [k |-> keywordIndex[i].k,
      v |-> SelectSeq(keywordIndex[i].v,
                      LAMBDA key : SplitKey(key).topic # topicName)]]

\* first loop of updateTopic: drop the topic's keys from every set, then drop
\* the sets that became empty
RemoveTopicKeys(keywordIndex, topicName) ==
  LET stripped ==
        [i \in 1..Len(keywordIndex) |->
           [k |-> keywordIndex[i].k,
            v |-> SelectSeq(keywordIndex[i].v,
                            LAMBDA key : SplitKey(key).topic # topicName)]]
  IN SelectSeq(stripped, LAMBDA e : Len(e.v) # 0)

\* a second loop that re-indexes only the subtopics whose keyword list is not
\* the one the Subtopic map holds
RECURSIVE ReindexSubtopicsChanged(_, _, _)
ReindexSubtopicsChanged(idx, topicName, subs) ==
  IF subs = <<>> THEN idx
  ELSE LET subtopicData == Head(subs)
           fullSubtopicKey == FullKey(topicName, subtopicData.name)
           same == /\ MapHas(idx.subtopics, fullSubtopicKey)
                   /\ MapGet(idx.subtopics, fullSubtopicKey).keywords
                        = subtopicData.keywords
       IN ReindexSubtopicsChanged(
            IF same THEN idx
            ELSE [idx EXCEPT
                    !.subtopics = MapSet(@, fullSubtopicKey,
                                         SubtopicEntry(topicName, subtopicData)),
                    !.keywordIndex = IndexKeywords(@, subtopicData.keywords,
                                                   fullSubtopicKey)],
            topicName, Tail(subs))

\* second loop of updateTopic
RECURSIVE ReindexSubtopics(_, _, _)
ReindexSubtopics(idx, topicName, subs) ==
  IF subs = <<>> THEN idx
  ELSE LET subtopicData == Head(subs)
           fullSubtopicKey == FullKey(topicName, subtopicData.name)
       IN ReindexSubtopics(
            [idx EXCEPT
               !.subtopics = MapSet(@, fullSubtopicKey,
                                    SubtopicEntry(topicName, subtopicData)),
               !.keywordIndex = IndexKeywords(@, subtopicData.keywords,
                                              fullSubtopicKey)],
            topicName, Tail(subs))

\* a reload that stops after re-indexing the first subtopic of the data
updateTopicFirstOnly(idx, topicData) ==
  ReindexSubtopics(
    [idx EXCEPT !.keywordIndex = RemoveTopicKeys(@, topicData.topic)],
    topicData.topic, SubSeq(topicData.subtopics, 1, 1))

updateTopic(idx, topicData) ==
  ReindexSubtopics(
    [idx EXCEPT !.keywordIndex = RemoveTopicKeys(@, topicData.topic)],
    topicData.topic, topicData.subtopics)

(***************************************************************************)
(* Calls and console lines                                                 *)
(***************************************************************************)
\* null
Null == <<>>

\* a call, as the trace keeps it
Call(op, topicName, subtopicName, keywords, relevance) ==
  [op |-> op, topic |-> topicName, subtopic |-> subtopicName,
   keywords |-> keywords, relevance |-> relevance, text |-> ""]

\* a line written with console.log or console.error
Console(level, text, topicName, subtopicName) ==
  [op |-> "console." \o level, topic |-> topicName, subtopic |-> subtopicName,
   keywords |-> <<>>, relevance |-> 0, text |-> text]

Traced(w, e) == [w EXCEPT !.trace = Append(@, e)]

ReloadNotFound == "[Reload] Topic file not found"

ReloadRefreshed == "[Reload] Refreshed"

LearnerAdded == "[KeywordLearner] Added"

HandlerError == "Error:"

(***************************************************************************)
(* The Taxonomy Store on disk                                              *)
(***************************************************************************)
\* topicName.toLowerCase().replace(/\s+/g, '-'): the lower-cased words, which
\* the path joins with '-'
TopicDirName(topicName) == LowerAll(topicName)

\* subtopicName.toLowerCase().replace(/\s+/g, '-')...: the words of the model
\* hold letters only, so the two later replacements remove nothing
SubtopicFileName(subtopicName) == LowerAll(subtopicName)

\* fs.existsSync(filepath)
FileExists(fs, dir, file) ==
  \E i \in 1..Len(fs) : fs[i].dir = dir /\ fs[i].file = file

FileIdx(fs, dir, file) ==
  CHOOSE i \in 1..Len(fs) : fs[i].dir = dir /\ fs[i].file = file

\* fs.readdirSync(TOPICS_DIR) filtered to directories: the distinct
\* directories in listing order
RECURSIVE TopicDirs(_, _)
TopicDirs(fs, seen) ==
  IF fs = <<>> THEN seen
  ELSE TopicDirs(Tail(fs), SetAdd(seen, Head(fs).dir))

\* the body of the loop over topicDirs in loadIndex
LoadTopic(fs, dir) ==
  LET subtopicFiles == SelectSeq(fs, LAMBDA f : f.dir = dir)
  IN [topic |-> subtopicFiles[1].data.topic,
      subtopics |->
        [i \in 1..Len(subtopicFiles) |->
           [name |-> subtopicFiles[i].data.subtopic,
            keywords |-> IF "keywords" \in DOMAIN subtopicFiles[i].data
                           THEN subtopicFiles[i].data.keywords ELSE <<>>,
            sources |-> IF "sources" \in DOMAIN subtopicFiles[i].data
                          THEN subtopicFiles[i].data.sources ELSE <<>>]]]

\* const data = { topics: [] } as the loop of loadIndex fills it
LoadedData(fs) ==
  LET topicDirs == TopicDirs(fs, <<>>)
  IN [topics |-> [i \in 1..Len(topicDirs) |-> LoadTopic(fs, topicDirs[i])]]

loadIndex(fs) == buildFromJSON(LoadedData(fs))

\* index.buildFromJSON(data) on the instance the server already holds
SameIndexFromJSON(idx, data) == buildFromJSONOn(idx, data)

\* index = new HierarchicalIndex(); index.buildFromJSON(data)
NewIndexFromJSON(idx, data) == buildFromJSONOn(EmptyIndex, data)

\* function reloadTopic(topicName) of server.js
reloadTopic(w, topicName) ==
  LET filename == TopicDirName(topicName)
      called == Traced(w, Call("reloadTopic", topicName, Null, <<>>, 0))
  IN IF ~MapHas(w.topicFiles, filename)
       THEN Traced(called, Console("error", ReloadNotFound, topicName, Null))
     ELSE Traced([called EXCEPT
                    !.index = updateTopic(@, MapGet(w.topicFiles, filename))],
                 Console("log", ReloadRefreshed, topicName, Null))

(***************************************************************************)
(* KeywordLearner                                                          *)
(***************************************************************************)
\* the loop without its length test
RECURSIVE PushNewKeywordsUncapped(_, _, _)
PushNewKeywordsUncapped(keywords, existingKeywords, newKeywords) ==
  IF newKeywords = <<>> THEN keywords
  ELSE LET keyword == Head(newKeywords)
           pushed == IF keyword \notin existingKeywords
                       THEN Append(keywords, keyword) ELSE keywords
       IN PushNewKeywordsUncapped(pushed, existingKeywords, Tail(newKeywords))

\* the loop of addKeywordsToSubtopic: existingKeywords is the Set taken before
\* the loop, the length test reads the growing list
RECURSIVE PushNewKeywords(_, _, _)
PushNewKeywords(keywords, existingKeywords, newKeywords) ==
  IF newKeywords = <<>> THEN keywords
  ELSE LET keyword == Head(newKeywords)
           pushed == IF /\ keyword \notin existingKeywords
                        /\ Len(keywords) < maxKeywordsPerSubtopic
                       THEN Append(keywords, keyword) ELSE keywords
       IN PushNewKeywords(pushed, existingKeywords, Tail(newKeywords))

\* a learner that writes and reloads whatever the loop added
AddedAnyOrNone(added) == TRUE

\* if (added > 0)
AddedAny(added) == added > 0

\* fs.writeFileSync throws on a file the process may not write; the exception
\* leaves addKeywordsToSubtopic at once
addKeywordsToSubtopic(w, topicName, subtopicName, newKeywords) ==
  LET dir == TopicDirName(topicName)
      file == SubtopicFileName(subtopicName)
      called == Traced(w, Call("addKeywordsToSubtopic", topicName,
                               subtopicName, newKeywords, 0))
  IN IF ~FileExists(w.files, dir, file) THEN called
     ELSE LET i == FileIdx(w.files, dir, file)
              subtopicData == w.files[i].data
              keywords == PushNewKeywords(subtopicData.keywords,
                                          Range(subtopicData.keywords),
                                          newKeywords)
              added == Len(keywords) - Len(subtopicData.keywords)
              writing == Traced(called, Call("writeFileSync", topicName,
                                             subtopicName, keywords, 0))
          IN IF AddedAny(added)
               THEN IF ~w.files[i].writable
                      THEN [writing EXCEPT !.thrown = TRUE]
                    ELSE reloadTopic(
                           Traced([writing EXCEPT !.files[i].data.keywords = keywords],
                                  Console("log", LearnerAdded, topicName,
                                          subtopicName)),
                           topicName)
               ELSE called

\* for (const entry of this.learningLog) subtopicQueries[key].push(entry)
\* The loop appends to the list of every key that has one the entries of the
\* log filed under it, and starts a list for every other key in the order
\* the log first names it.
GroupQueries(log, subtopicQueries) ==
  LET KeyAt(i) == FullKey(log[i].topic, log[i].subtopic)
      EntriesOf(key) ==
        SelectSeq(log, LAMBDA e : FullKey(e.topic, e.subtopic) = key)
      updated ==
        [i \in 1..Len(subtopicQueries) |->
           [k |-> subtopicQueries[i].k,
            v |-> subtopicQueries[i].v \o EntriesOf(subtopicQueries[i].k)]]
      keys == {KeyAt(i) : i \in 1..Len(log)}
      FirstAt(key) == CHOOSE i \in 1..Len(log) :
                        /\ KeyAt(i) = key
                        /\ \A j \in 1..(i - 1) : KeyAt(j) # key
      firsts == {FirstAt(key) : key \in {k \in keys : ~MapHas(subtopicQueries, k)}}
      positions == SelectSeq([i \in 1..Len(log) |-> i], LAMBDA i : i \in firsts)
  IN updated \o [j \in 1..Len(positions) |->
                   [k |-> KeyAt(positions[j]), v |-> EntriesOf(KeyAt(positions[j]))]]

\* for (const keyword of ...) keywordFreq.set(keyword, (get(keyword) || 0) + 1)
\* over one list of keywords: every occurrence counts, a keyword gets its
\* entry where the list first names it
CountKeywords(keywords, keywordFreq) ==
  LET Occurrences(keyword) ==
        Cardinality({p \in 1..Len(keywords) : keywords[p] = keyword})
      updated ==
        [i \in 1..Len(keywordFreq) |->
           [k |-> keywordFreq[i].k,
            v |-> keywordFreq[i].v + Occurrences(keywordFreq[i].k)]]
      FirstAt(keyword) == CHOOSE p \in 1..Len(keywords) :
                            /\ keywords[p] = keyword
                            /\ \A q \in 1..(p - 1) : keywords[q] # keyword
      firsts == {FirstAt(keyword) :
                   keyword \in {k \in Range(keywords) : ~MapHas(keywordFreq, k)}}
      positions == SelectSeq([p \in 1..Len(keywords) |-> p], LAMBDA p : p \in firsts)
  IN updated \o [j \in 1..Len(positions) |->
                   [k |-> keywords[positions[j]],
                    v |-> Occurrences(keywords[positions[j]])]]

\* the keyword lists of the queries, one after the other: what the two nested
\* loops of lines 59-63 walk through
QueryKeywords(queries) ==
  LET lengths == {Len(queries[i].keywords) : i \in 1..Len(queries)} \cup {0}
      width == CHOOSE x \in lengths : \A y \in lengths : y <= x
      QueryOf(n) == ((n - 1) \div width) + 1
      PlaceOf(n) == ((n - 1) % width) + 1
      cells == SelectSeq([n \in 1..(Len(queries) * width) |-> n],
                         LAMBDA n : PlaceOf(n) <= Len(queries[QueryOf(n)].keywords))
  IN [c \in 1..Len(cells) |-> queries[QueryOf(cells[c])].keywords[PlaceOf(cells[c])]]

KeywordFreq(queries, keywordFreq) ==
  CountKeywords(QueryKeywords(queries), keywordFreq)

\* Math.ceil(n * 0.6)
Threshold(n) == (3 * n + 4) \div 5

\* the keywords of one bucket that pass the frequency and length tests
FrequentKeywords(queries) ==
  LET keywordFreq == KeywordFreq(queries, <<>>)
      passing == SelectSeq(keywordFreq,
                           LAMBDA e : /\ e.v >= Threshold(Len(queries))
                                      /\ Len(e.k) >= MinKeywordLength)
  IN MapKeys(passing)

\* the loop over the buckets without its test of the bucket's size
RECURSIVE LearnBucketsNoMinimum(_, _)
LearnBucketsNoMinimum(w, buckets) ==
  IF buckets = <<>> \/ w.thrown THEN w
  ELSE LET key == Head(buckets).k
           queries == Head(buckets).v
           newKeywords == FrequentKeywords(queries)
           next == IF Len(newKeywords) > 0
                     THEN addKeywordsToSubtopic(w, SplitKey(key).topic,
                                                SplitKey(key).subtopic,
                                                newKeywords)
                     ELSE w
       IN LearnBucketsNoMinimum(next, Tail(buckets))

\* the loop of learnFromQueries over the buckets
RECURSIVE LearnBuckets(_, _)
LearnBuckets(w, buckets) ==
  IF buckets = <<>> \/ w.thrown THEN w
  ELSE LET key == Head(buckets).k
           queries == Head(buckets).v
           newKeywords == FrequentKeywords(queries)
           next == IF Len(queries) < minQueryCount THEN w
                   ELSE IF Len(newKeywords) > 0
                     THEN addKeywordsToSubtopic(w, SplitKey(key).topic,
                                                SplitKey(key).subtopic,
                                                newKeywords)
                     ELSE w
       IN LearnBuckets(next, Tail(buckets))

\* this.learningLog.slice(-100) when the log is longer than 100
TrimLog(log) ==
  IF Len(log) > LogCap THEN SubSeq(log, Len(log) - LogCap + 1, Len(log)) ELSE log

learnFromQueries(w) ==
  LET called == Traced(w, Call("learnFromQueries", Null, Null, <<>>, 0))
      learned == LearnBuckets(called, GroupQueries(w.learningLog, <<>>))
  IN IF learned.thrown THEN learned
     ELSE [learned EXCEPT !.learningLog = TrimLog(@)]

recordQuery(w, keywords, topicName, subtopicName, relevance) ==
  LET called == Traced(w, Call("recordQuery", topicName, subtopicName,
                               keywords, relevance))
      pushed == [called EXCEPT !.learningLog =
                   Append(@, [timestamp |-> w.now,
                              keywords |-> keywords, topic |-> topicName,
                              subtopic |-> subtopicName,
                              relevance |-> relevance])]
  IN IF Len(pushed.learningLog) >= minQueryCount
       THEN learnFromQueries(pushed) ELSE pushed

(***************************************************************************)
(* POST /api/get-sources                                                   *)
(***************************************************************************)
\* claim.toLowerCase().match(/\b[a-z]{3,}\b/g) || [] without the stop words;
\* the claim is the sequence of its whitespace-separated words
ExtractKeywords(claim) ==
  LET words == SelectSeq(LowerAll(claim),
                         LAMBDA x : Alphabetic(x) /\ Len(x) >= MinWordLength)
  IN SelectSeq(words, LAMBDA x : x \notin stopWords)

NoSignalMessage == "No keywords extracted from claim"

NoMatchMessage == "No matching subtopics found"

FoundMessage == "Found source(s)"

EmptyResponse(message) ==
  [status |-> 200, topic |-> Null, subtopic |-> Null, relevance |-> 0,
   sources |-> <<>>, totalSources |-> 0, message |-> message]

InvalidInput ==
  [status |-> 400, topic |-> Null, subtopic |-> Null, relevance |-> 0,
   sources |-> <<>>, totalSources |-> 0, message |-> "Invalid input"]

InternalError ==
  [status |-> 500, topic |-> Null, subtopic |-> Null, relevance |-> 0,
   sources |-> <<>>, totalSources |-> 0, message |-> "Internal server error"]

\* what a request or a call finds: the store, the index, the learner's log and
\* the time; trace and thrown start empty for each
World == [files |-> files, topicFiles |-> topicFiles, index |-> index,
          learningLog |-> learningLog, now |-> clock, trace |-> <<>>,
          thrown |-> FALSE]

\* the same lines with the query recorded before the sources are fetched
ServeTopMatchRecordFirst(w, keywords, rankedSubtopics) ==
  LET topMatch == rankedSubtopics[1]
      recorded == recordQuery(w, keywords, topMatch.topic,
                              topMatch.subtopic, topMatch.relevance)
      sources == getSourcesBySubtopic(recorded.index, topMatch.topic,
                                      topMatch.subtopic, ServedLimit)
      served == Traced(recorded, Call("getSourcesBySubtopic", topMatch.topic,
                                      topMatch.subtopic, <<>>, 0))
  IN IF recorded.thrown
       THEN [w |-> Traced([recorded EXCEPT !.thrown = FALSE],
                          Console("error", HandlerError, Null, Null)),
             res |-> InternalError]
     ELSE [w |-> served,
           res |-> [status |-> 200, topic |-> topMatch.topic,
                    subtopic |-> topMatch.subtopic,
                    relevance |-> topMatch.relevance,
                    sources |-> sources,
                    totalSources |-> Len(sources),
                    message |-> FoundMessage]]

\* lines 164-188 of the handler: serve the top match, record the query, send
\* the response; an exception out of recordQuery reaches the catch
ServeTopMatch(w, keywords, rankedSubtopics) ==
  LET topMatch == rankedSubtopics[1]
      sources == getSourcesBySubtopic(w.index, topMatch.topic,
                                      topMatch.subtopic, ServedLimit)
      served == Traced(w, Call("getSourcesBySubtopic", topMatch.topic,
                               topMatch.subtopic, <<>>, 0))
      recorded == recordQuery(served, keywords, topMatch.topic,
                              topMatch.subtopic, topMatch.relevance)
  IN IF recorded.thrown
       THEN [w |-> Traced([recorded EXCEPT !.thrown = FALSE],
                          Console("error", HandlerError, Null, Null)),
             res |-> InternalError]
     ELSE [w |-> recorded,
           res |-> [status |-> 200, topic |-> topMatch.topic,
                    subtopic |-> topMatch.subtopic,
                    relevance |-> topMatch.relevance,
                    sources |-> sources,
                    totalSources |-> Len(sources),
                    message |-> FoundMessage]]

\* the handler without its test for an empty keyword list
GetSourcesHandlerNoEmptyTest(w, req) ==
  IF ~req.isString \/ req.claim = <<>>
    THEN [w |-> w, res |-> InvalidInput]
  ELSE LET keywords == ExtractKeywords(req.claim)
           rankedSubtopics == searchByKeywords(w.index, keywords)
           searched == Traced(w, Call("searchByKeywords", Null, Null, keywords, 0))
       IN IF Len(rankedSubtopics) = 0
            THEN [w |-> searched, res |-> EmptyResponse(NoMatchMessage)]
          ELSE ServeTopMatch(searched, keywords, rankedSubtopics)

\* the handler: the response it sends and the world it leaves
GetSourcesHandler(w, req) ==
  IF ~req.isString \/ req.claim = <<>>
    THEN [w |-> w, res |-> InvalidInput]
  ELSE LET keywords == ExtractKeywords(req.claim)
           rankedSubtopics == searchByKeywords(w.index, keywords)
           searched == Traced(w, Call("searchByKeywords", Null, Null, keywords, 0))
       IN IF Len(keywords) = 0
            THEN [w |-> w, res |-> EmptyResponse(NoSignalMessage)]
          ELSE IF Len(rankedSubtopics) = 0
            THEN [w |-> searched, res |-> EmptyResponse(NoMatchMessage)]
          ELSE ServeTopMatch(searched, keywords, rankedSubtopics)

(***************************************************************************)
(* The taxonomy the model boots from                                       *)
(***************************************************************************)
BlackHoles == <<"Black", "Holes">>

EventHorizons == <<"Event", "Horizons">>

NeutronStars == <<"Neutron", "Stars">>

MassLimits == <<"Mass", "Limits">>

Pulsars == <<"Pulsars">>

Accretion == <<"Accretion">>

Src(arxiv, doi, title) == [arxiv |-> arxiv, doi |-> doi, title |-> title]

\* n distinct keywords that no query contains
Filler(n) == [i \in 1..n |-> "filler" \o ToString(i)]

\* how many filler keywords Event Horizons starts with: none, or enough to
\* leave room for one more keyword, or for none
FillerChoices == {0, maxKeywordsPerSubtopic - 3, maxKeywordsPerSubtopic - 2}

\* the per-subtopic files as split-topics-to-subtopics.js writes them, in
\* directory listing order
BootFiles(n) ==
  << [dir |-> TopicDirName(BlackHoles), file |-> SubtopicFileName(EventHorizons),
      writable |-> TRUE,
      data |-> [topic |-> BlackHoles, subtopic |-> EventHorizons,
                keywords |-> Filler(n) \o <<"event horizon", "black hole">>,
                sources |-> <<Src("a1", "", ""), Src("", "d1", "")>>]],
     [dir |-> TopicDirName(NeutronStars), file |-> SubtopicFileName(MassLimits),
      writable |-> TRUE,
      data |-> [topic |-> NeutronStars, subtopic |-> MassLimits,
                keywords |-> <<"neutron star", "mass limit">>,
                sources |-> <<Src("a2", "", ""), Src("a3", "d3", "")>>]],
     [dir |-> TopicDirName(NeutronStars), file |-> SubtopicFileName(Pulsars),
      writable |-> TRUE,
      data |-> [topic |-> NeutronStars, subtopic |-> Pulsars,
                keywords |-> <<"pulsar", "neutron star">>,
                sources |-> <<Src("", "", "t1"), Src("a2", "", "")>>]] >>

\* what is left of the per-topic layout: nothing, the topic files with the
\* keyword lists of boot time, or the topic files as the ingest scripts
\* created them (keywords: [])
Layouts == {"absent", "snapshot", "ingested"}

TopicFilesOf(fs, layout) ==
  LET topicDirs == TopicDirs(fs, <<>>)
      AsIngested(topicData) ==
        [topic |-> topicData.topic,
         subtopics |-> [i \in 1..Len(topicData.subtopics) |->
                          [topicData.subtopics[i] EXCEPT !.keywords = <<>>]]]
  IN IF layout = "absent" THEN <<>>
     ELSE [i \in 1..Len(topicDirs) |->
             [k |-> topicDirs[i],
              v |-> IF layout = "snapshot" THEN LoadTopic(fs, topicDirs[i])
                    ELSE AsIngested(LoadTopic(fs, topicDirs[i]))]]

NoCall ==
  [op |-> "none", keywords |-> <<>>, topic |-> Null, subtopic |-> Null,
   limit |-> 0, value |-> <<>>, threw |-> FALSE]

NoResponse ==
  [status |-> 0, topic |-> Null, subtopic |-> Null, relevance |-> 0,
   sources |-> <<>>, totalSources |-> 0, message |-> ""]

Init ==
  \E n \in FillerChoices, layout \in Layouts :
    /\ files = BootFiles(n)
    /\ topicFiles = TopicFilesOf(files, layout)
    /\ index = loadIndex(files)
    /\ learningLog = <<>>
    /\ clock = 0
    /\ trace = <<>>
    /\ ret = NoCall
    /\ res = NoResponse

\* the files of the store the server process may not write
ReadOnlyChoices == {{}, {1}}

\* how many "pulsar" queries the server has served and logged already
BacklogChoices == {0, LogCap - 2}

\* the log after m served queries "pulsar"
Backlog(m) ==
  [i \in 1..m |->
     [timestamp |-> 0, keywords |-> <<"pulsar">>, topic |-> NeutronStars,
      subtopic |-> Pulsars, relevance |-> 1]]

\* the running server: the store as booted, some of its files read-only, and
\* the log the queries served so far have left
InitLive ==
  \E layout \in Layouts, ro \in ReadOnlyChoices, m \in BacklogChoices :
    /\ files = [i \in 1..Len(BootFiles(0)) |->
                  [BootFiles(0)[i] EXCEPT !.writable = (i \notin ro)]]
    /\ topicFiles = TopicFilesOf(files, layout)
    /\ index = loadIndex(files)
    /\ learningLog = Backlog(m)
    /\ clock = 0
    /\ trace = <<>>
    /\ ret = NoCall
    /\ res = NoResponse

\* the server after it recorded n queries "schwarzschild" matched to Event
\* Horizons
RECURSIVE AfterQueries(_, _)
AfterQueries(w, n) ==
  IF n = 0 THEN w
  ELSE LET before == AfterQueries(w, n - 1)
       IN recordQuery([before EXCEPT !.trace = <<>>, !.thrown = FALSE],
                      <<"schwarzschild">>, BlackHoles, EventHorizons, 1)

\* the running server, three recorded Event Horizons queries after its start
InitBusy ==
  \E layout \in Layouts, ro \in ReadOnlyChoices :
    LET fs == [i \in 1..Len(BootFiles(0)) |->
                 [BootFiles(0)[i] EXCEPT !.writable = (i \notin ro)]]
        w == AfterQueries([files |-> fs, topicFiles |-> TopicFilesOf(fs, layout),
                           index |-> loadIndex(fs), learningLog |-> <<>>,
                           now |-> 0, trace |-> <<>>, thrown |-> FALSE],
                          minQueryCount)
    IN /\ files = w.files
       /\ topicFiles = w.topicFiles
       /\ index = w.index
       /\ learningLog = w.learningLog
       /\ clock = 0
       /\ trace = <<>>
       /\ ret = NoCall
       /\ res = NoResponse

(***************************************************************************)
(* Inputs                                                                  *)
(***************************************************************************)
\* tokens as the handler extracts them: lower case, letters, three or more
Tokens ==
  {"neutron", "star", "mass", "limit", "event", "horizon", "pulsar",
   "schwarzschild"}

Queries == SeqsUpTo(Tokens, MaxWords)

TopicNames == {BlackHoles, NeutronStars, Accretion}

SubtopicNames == {EventHorizons, MassLimits, Pulsars}

\* request bodies of POST /api/get-sources
Requests ==
  { [isString |-> FALSE, claim |-> <<>>],
    [isString |-> TRUE, claim |-> <<>>],
    [isString |-> TRUE, claim |-> <<"The", "of", "42">>],
    [isString |-> TRUE, claim |-> <<"schwarzschild">>],
    [isString |-> TRUE, claim |-> <<"kerr", "pulsar">>],
    [isString |-> TRUE, claim |-> <<"The", "schwarzschild", "event", "horizon">>],
    [isString |-> TRUE, claim |-> <<"Neutron", "star", "mass", "limit">>] }

\* arguments of direct recordQuery calls
LearnKeywords ==
  { <<"schwarzschild">>, <<"schwarzschild", "of", "kerr", "kerr">> }

LearnBucketsIn ==
  { <<BlackHoles, EventHorizons>>, <<NeutronStars, Pulsars>>,
    <<BlackHoles, Accretion>> }

\* arguments of direct addKeywordsToSubtopic calls
AddBatches ==
  { <<"kerr">>, <<"kerr", "kerr">>, <<"black hole", "schwarzschild", "kerr">> }

AddBucketsIn == { <<BlackHoles, EventHorizons>>, <<BlackHoles, Accretion>> }

\* topic data handed to updateTopic
Sub(name, keywords, sources) ==
  [name |-> name, keywords |-> keywords, sources |-> sources]

TopicUpdates ==
  LET ml == {Sub(MassLimits, kws, <<Src("a2", "", ""), Src("a3", "d3", "")>>) :
               kws \in {<<"neutron star", "mass limit">>, <<"mass limit", "mass">>,
                        <<"neutron star", "mass limit", "mass">>}}
      pu == {Sub(Pulsars, kws, <<Src("", "", "t1"), Src("a2", "", "")>>) :
               kws \in {<<"pulsar", "neutron star">>, <<>>}}
      mg == Sub(<<"Magnetars">>, <<"pulsar", "magnetar">>, <<>>)
      eh == {Sub(EventHorizons, kws, <<Src("a1", "", ""), Src("", "d1", "")>>) :
               kws \in {<<"event horizon", "black hole">>,
                        <<"event horizon", "black hole", "schwarzschild">>}}
  IN {[topic |-> NeutronStars, subtopics |-> <<a, b>>] : a \in ml, b \in pu}
     \cup {[topic |-> NeutronStars, subtopics |-> <<b, a>>] : a \in ml, b \in pu}
     \cup {[topic |-> NeutronStars, subtopics |-> <<a>>] : a \in ml}
     \cup {[topic |-> NeutronStars, subtopics |-> <<a, mg>>] : a \in ml}
     \cup {[topic |-> BlackHoles, subtopics |-> <<a>>] : a \in eh}
     \cup {[topic |-> BlackHoles, subtopics |-> <<>>]}
     \cup {[topic |-> BlackHoles,
            subtopics |-> <<Sub(EventHorizons, <<"event horizon", "black hole">>,
                                <<Src("a1", "", "")>>)>>]}

\* a subtopic record as written, with both lists, without its keyword list
\* or without its source list
RecordShapes == {"full", "noKeywords", "noSources"}

Shaped(record, nameField, shape) ==
  IF shape = "noKeywords"
    THEN [f \in {nameField, "sources"} |-> record[f]]
  ELSE IF shape = "noSources"
    THEN [f \in {nameField, "keywords"} |-> record[f]]
  ELSE [f \in {nameField, "keywords", "sources"} |-> record[f]]

\* at most one of the three records is not full
ShapeChoices ==
  { shapes \in [1..3 -> RecordShapes] :
      Cardinality({ i \in 1..3 : shapes[i] # "full" }) <= 1 }

\* the order of the two Neutron Stars records in the data
RecordOrders == {"stored", "swapped"}

\* taxonomy data handed to buildFromJSON: the boot taxonomy with each
\* subtopic record in one of the shapes
BuildData(shapes, order) ==
  LET boot == BootFiles(0)
      Rec(i) == Shaped(Sub(boot[i].data.subtopic, boot[i].data.keywords,
                           boot[i].data.sources), "name", shapes[i])
  IN [topics |-> << [topic |-> BlackHoles, subtopics |-> <<Rec(1)>>],
                    [topic |-> NeutronStars,
                     subtopics |-> IF order = "stored" THEN <<Rec(2), Rec(3)>>
                                   ELSE <<Rec(3), Rec(2)>>] >>]

BuildInputs ==
  { BuildData(shapes, order) : shapes \in ShapeChoices, order \in RecordOrders }

\* the store a server process boots on: the boot store with each record file
\* in one of the shapes
StoreOf(shapes) ==
  LET boot == BootFiles(0)
  IN [i \in 1..Len(boot) |->
        [dir |-> boot[i].dir, file |-> boot[i].file,
         writable |-> boot[i].writable,
         data |-> IF shapes[i] = "noKeywords"
                    THEN [topic |-> boot[i].data.topic,
                          subtopic |-> boot[i].data.subtopic,
                          sources |-> boot[i].data.sources]
                  ELSE IF shapes[i] = "noSources"
                    THEN [topic |-> boot[i].data.topic,
                          subtopic |-> boot[i].data.subtopic,
                          keywords |-> boot[i].data.keywords]
                  ELSE boot[i].data]]

Stores == { StoreOf(shapes) : shapes \in ShapeChoices }

(***************************************************************************)
(* Actions                                                                 *)
(***************************************************************************)
\* a caller builds an index from data
BuildFromJSON(data) ==
  /\ clock < MaxLog
  /\ LET out == NewIndexFromJSON(index, data)
     IN /\ index' = out.index
        /\ ret' = [NoCall EXCEPT !.op = "buildFromJSON", !.value = data.topics,
                                 !.threw = out.threw]
  /\ clock' = clock + 1
  /\ UNCHANGED <<files, topicFiles, learningLog, trace, res>>

\* a server process starts on the store fs
LoadIndex(fs) ==
  /\ clock < MaxLog
  /\ files' = fs
  /\ LET out == NewIndexFromJSON(index, LoadedData(fs))
     IN /\ index' = out.index
        /\ ret' = [NoCall EXCEPT !.op = "loadIndex",
                                 !.value = LoadedData(fs).topics,
                                 !.threw = out.threw]
  /\ learningLog' = <<>>
  /\ clock' = clock + 1
  /\ UNCHANGED <<topicFiles, trace, res>>

SearchByKeywords(keywords) ==
  /\ ret' = [NoCall EXCEPT !.op = "searchByKeywords", !.keywords = keywords,
                           !.value = searchByKeywords(index, keywords)]
  /\ index' = IndexAfterSearch(index, keywords)
  /\ UNCHANGED <<files, topicFiles, learningLog, clock, trace, res>>

GetSourcesBySubtopic(topicName, subtopicName, limit) ==
  /\ ret' = [NoCall EXCEPT !.op = "getSourcesBySubtopic", !.topic = topicName,
                           !.subtopic = subtopicName, !.limit = limit,
                           !.value = getSourcesBySubtopic(index, topicName,
                                                          subtopicName, limit)]
  /\ index' = IndexAfterGetSources(index, topicName, subtopicName, limit)
  /\ UNCHANGED <<files, topicFiles, learningLog, clock, trace, res>>

UpdateTopic(topicData) ==
  /\ index' = updateTopic(index, topicData)
  /\ ret' = [NoCall EXCEPT !.op = "updateTopic", !.topic = topicData.topic,
                           !.value = topicData]
  /\ UNCHANGED <<files, topicFiles, learningLog, clock, trace, res>>

PostGetSources(req) ==
  /\ clock < MaxLog
  /\ LET out == GetSourcesHandler(World, req)
     IN /\ files' = out.w.files
        /\ index' = out.w.index
        /\ learningLog' = out.w.learningLog
        /\ trace' = out.w.trace
        /\ res' = out.res
  /\ clock' = clock + 1
  /\ ret' = [NoCall EXCEPT !.op = "getSourcesHandler", !.value = req]
  /\ UNCHANGED topicFiles

RecordQuery(keywords, topicName, subtopicName) ==
  /\ clock < MaxLog
  /\ LET w == recordQuery(World, keywords, topicName, subtopicName, 1)
     IN /\ files' = w.files
        /\ index' = w.index
        /\ learningLog' = w.learningLog
        /\ trace' = w.trace
        /\ ret' = [NoCall EXCEPT !.op = "recordQuery", !.keywords = keywords,
                                 !.topic = topicName, !.subtopic = subtopicName,
                                 !.threw = w.thrown]
  /\ clock' = clock + 1
  /\ UNCHANGED <<topicFiles, res>>

AddKeywordsToSubtopic(topicName, subtopicName, newKeywords) ==
  /\ clock < MaxLog
  /\ LET w == addKeywordsToSubtopic(World, topicName, subtopicName, newKeywords)
     IN /\ files' = w.files
        /\ index' = w.index
        /\ trace' = w.trace
        /\ ret' = [NoCall EXCEPT !.op = "addKeywordsToSubtopic",
                                 !.keywords = newKeywords,
                                 !.topic = topicName, !.subtopic = subtopicName,
                                 !.threw = w.thrown]
  /\ clock' = clock + 1
  /\ UNCHANGED <<topicFiles, learningLog, res>>

\* the read-only interface of the index; a read changes nothing, so every
\* read is taken from the state the boot left
NextQuery ==
  \/ /\ ret = NoCall
     /\ \E keywords \in Queries : SearchByKeywords(keywords)
  \/ /\ ret = NoCall
     /\ \E topicName \in TopicNames, subtopicName \in SubtopicNames,
           limit \in 0..MaxLimit :
          GetSourcesBySubtopic(topicName, subtopicName, limit)

SpecQuery == Init /\ [][NextQuery]_vars

\* the index under any sequence of updateTopic calls
NextIndex == \E topicData \in TopicUpdates : UpdateTopic(topicData)

SpecIndex == Init /\ [][NextIndex]_vars

\* the learner with the server's reload callback, called directly
NextLearner ==
  \E keywords \in LearnKeywords, key \in LearnBucketsIn :
    RecordQuery(keywords, key[1], key[2])

SpecLearner == Init /\ [][NextLearner]_vars

\* the learner of a server that has been running, on a store it may not be
\* allowed to write
SpecLearnerLive == InitLive /\ [][NextLearner]_vars

\* the learner of a server whose log already holds a bucket of three
SpecLearnerBusy == InitBusy /\ [][NextLearner]_vars

\* the learner's store writer, called directly
NextAdd ==
  \E newKeywords \in AddBatches, key \in AddBucketsIn :
    AddKeywordsToSubtopic(key[1], key[2], newKeywords)

SpecAdd == Init /\ [][NextAdd]_vars

\* building the index, by a direct call or by a server start
NextBuild ==
  \/ \E data \in BuildInputs : BuildFromJSON(data)
  \/ \E fs \in Stores : LoadIndex(fs)

SpecBuild == Init /\ [][NextBuild]_vars

\* the server
Next == \E req \in Requests : PostGetSources(req)

Spec == Init /\ [][Next]_vars

\* the server after it has been running, on a store it may not be allowed to
\* write
SpecLive == InitLive /\ [][Next]_vars

(***************************************************************************)
(* Vocabulary of the properties                                            *)
(***************************************************************************)
IsSearch == ret.op = "searchByKeywords"

IsGetSources == ret.op = "getSourcesBySubtopic"

KeyOf(r) == FullKey(r.topic, r.subtopic)

\* the ranked list names the subtopic with a score of at least min
Listed(ranked, key, min) ==
  \E i \in 1..Len(ranked) : KeyOf(ranked[i]) = key /\ ranked[i].relevance >= min

\* the subtopics a literal key of the Keyword Index maps to
MappedTo(idx, keyword) ==
  IF MapHas(idx.keywordIndex, keyword)
    THEN Range(MapGet(idx.keywordIndex, keyword)) ELSE {}

\* the keyword list of the subtopic's record in the Taxonomy Store
StoreKeywords(key) ==
  files[FileIdx(files, TopicDirName(key[1]), SubtopicFileName(key[2]))].data.keywords

HasRecord(key) ==
  FileExists(files, TopicDirName(key[1]), SubtopicFileName(key[2]))

\* t is a keyword of no subtopic when the server boots
NotBootKeyword(t) ==
  \A n \in FillerChoices : \A i \in 1..Len(BootFiles(n)) :
    t \notin Range(BootFiles(n)[i].data.keywords)

\* the phrase windows of a token list: <<first position, length>>
Windows(q) ==
  {w \in (1..Len(q)) \X {2, 3} : w[1] + w[2] - 1 <= Len(q)}

WindowKey(q, w) == Join(SubSeq(q, w[1], w[1] + w[2] - 1))

(***************************************************************************)
(* C1  Three consecutive recordQuery calls for one subtopic whose token    *)
(* lists all contain a token t (three or more characters, not yet a        *)
(* keyword) put t into the subtopic's stored keyword list by the time the  *)
(* third call returns, and classify of [t] against the live index then     *)
(* returns that subtopic with score >= 1.  Stated for the first three      *)
(* calls after boot, for a subtopic that has a store record and whose      *)
(* list stays under the cap.                                               *)
(***************************************************************************)
C1_LearnedKeywordIsLive ==
  \A key \in LearnBucketsIn :
    \A t \in UNION {Range(ks) : ks \in LearnKeywords} :
      ( /\ Len(learningLog) = 3
        /\ \A i \in 1..3 : /\ FullKey(learningLog[i].topic,
                                      learningLog[i].subtopic) = key
                           /\ t \in Range(learningLog[i].keywords)
        /\ Len(t) >= 3
        /\ NotBootKeyword(t)
        /\ HasRecord(key)
        /\ Len(StoreKeywords(key)) < 50 )
      => /\ t \in Range(StoreKeywords(key))
         /\ Listed(searchByKeywords(index, <<t>>), key, 1)

(***************************************************************************)
(* C2  No keyword list, in the Taxonomy Store or in the Subtopic map, ever *)
(* holds more than 50 keywords; a learning cycle stops adding once the     *)
(* list has 50.                                                            *)
(***************************************************************************)
C2_KeywordCap ==
  /\ \A i \in 1..Len(files) : Len(files[i].data.keywords) <= 50
  /\ \A i \in 1..Len(index.subtopics) : Len(index.subtopics[i].v.keywords) <= 50

\* a cycle in which two tokens qualified and the cap let only the first in
C2_CapReached ==
  /\ Len(learningLog) >= 3
  /\ \A i \in 1..3 :
       /\ FullKey(learningLog[i].topic, learningLog[i].subtopic)
            = FullKey(BlackHoles, EventHorizons)
       /\ {"schwarzschild", "kerr"} \subseteq Range(learningLog[i].keywords)
  /\ Len(StoreKeywords(FullKey(BlackHoles, EventHorizons))) = 50
  /\ "schwarzschild" \in Range(StoreKeywords(FullKey(BlackHoles, EventHorizons)))
  /\ "kerr" \notin Range(StoreKeywords(FullKey(BlackHoles, EventHorizons)))

(***************************************************************************)
(* C3  After build and any sequence of updateTopic calls, every subtopic   *)
(* key in a Keyword Index set is a key of the Subtopic map, and no         *)
(* Keyword Index entry maps to an empty set.                               *)
(***************************************************************************)
C3_NoDanglingNoEmpty ==
  \A i \in 1..Len(index.keywordIndex) :
    /\ Len(index.keywordIndex[i].v) > 0
    /\ \A key \in Range(index.keywordIndex[i].v) : MapHas(index.subtopics, key)

\* an update took the last subtopic away from a keyword of the build, and
\* brought a subtopic the build did not have
C3_AfterUpdates ==
  /\ ret.op = "updateTopic"
  /\ ~MapHas(index.keywordIndex, "neutron star")
  /\ MapHas(index.keywordIndex, "magnetar")

(***************************************************************************)
(* C4  A read never sees a topic half reloaded: across every step, what    *)
(* the Keyword Index and the Subtopic map hold for a topic is either what  *)
(* they held before, or the complete view of the topic data the reload     *)
(* read (every subtopic of the data indexed under exactly its keywords).   *)
(***************************************************************************)
\* what the index holds for one topic: the (keyword, subtopic) pairs of the
\* Keyword Index and the entries of the Subtopic map
TopicView(idx, topicName) ==
  [pairs |-> UNION {{<<idx.keywordIndex[i].k, key>> :
                       key \in {x \in Range(idx.keywordIndex[i].v) :
                                  x[1] = topicName}} :
                    i \in 1..Len(idx.keywordIndex)},
   entries |-> {e \in Range(idx.subtopics) : e.k[1] = topicName}]

\* the view a complete reload of the topic publishes
PublishedView(idx, topicName, tf) ==
  IF ~MapHas(tf, TopicDirName(topicName)) THEN TopicView(idx, topicName)
  ELSE LET data == MapGet(tf, TopicDirName(topicName))
           subs == Range(data.subtopics)
       IN [pairs |-> UNION {{<<kw, FullKey(topicName, sub.name)>> :
                               kw \in Range(sub.keywords)} : sub \in subs},
           entries |->
             {[k |-> FullKey(topicName, sub.name),
               v |-> [name |-> sub.name, topic |-> topicName,
                      keywords |-> sub.keywords,
                      sourceCount |-> Len(sub.sources)]] : sub \in subs}
             \cup {e \in Range(idx.subtopics) :
                     /\ e.k[1] = topicName
                     /\ \A sub \in subs : sub.name # e.k[2]}]

C5_TiesInBuildOrder ==
  IsSearch =>
    \A i, j \in 1..Len(ret.value) :
      (i < j /\ ret.value[i].relevance = ret.value[j].relevance)
      => MapIdx(index.subtopics, KeyOf(ret.value[i]))
           < MapIdx(index.subtopics, KeyOf(ret.value[j]))

\* the place of a lookup in the scan: windows by first position, the 2-word
\* window before the 3-word one, then the single tokens by position
WindowRank(w) == 2 * w[1] + (w[2] - 2)

TokenRank(q, i) == 2 * (Len(q) + 1) + i

LookupAt(q, r) ==
  IF r > 2 * (Len(q) + 1) THEN q[r - 2 * (Len(q) + 1)]
  ELSE WindowKey(q, <<r \div 2, 2 + (r % 2)>>)

HitRanks(idx, q, key) ==
  {WindowRank(w) : w \in {x \in Windows(q) : key \in MappedTo(idx, WindowKey(q, x))}}
  \cup {TokenRank(q, i) : i \in {x \in 1..Len(q) : key \in MappedTo(idx, q[x])}}

FirstHit(idx, q, key) ==
  CHOOSE r \in HitRanks(idx, q, key) : \A o \in HitRanks(idx, q, key) : r <= o

PlaceInSet(idx, keyword, key) ==
  LET set == MapGet(idx.keywordIndex, keyword)
  IN CHOOSE i \in 1..Len(set) : set[i] = key

\* a received its first score before b did
ScoredBefore(idx, q, a, b) ==
  LET ra == FirstHit(idx, q, a)
      rb == FirstHit(idx, q, b)
  IN \/ ra < rb
     \/ /\ ra = rb
        /\ PlaceInSet(idx, LookupAt(q, ra), a) < PlaceInSet(idx, LookupAt(q, ra), b)

(***************************************************************************)
(* C5 (amended)  Subtopics of equal score are listed in the order in which *)
(* they first received a score: phrase windows in query order before       *)
(* single tokens in query order, and within one Keyword Index entry in     *)
(* the order of the entry's set.                                           *)
(***************************************************************************)
C5_TiesInFirstHitOrder ==
  IsSearch =>
    \A i, j \in 1..Len(ret.value) :
      (i < j /\ ret.value[i].relevance = ret.value[j].relevance)
      => ScoredBefore(index, ret.keywords, KeyOf(ret.value[i]), KeyOf(ret.value[j]))

\* two subtopics tie and the one built later is listed first
C5_TieAgainstBuildOrder ==
  /\ IsSearch
  /\ \E i, j \in 1..Len(ret.value) :
       /\ i < j
       /\ ret.value[i].relevance = ret.value[j].relevance
       /\ MapIdx(index.subtopics, KeyOf(ret.value[i]))
            > MapIdx(index.subtopics, KeyOf(ret.value[j]))

(***************************************************************************)
(* C6  The ranked list is in non-increasing order of final score.          *)
(***************************************************************************)
C6_Descending ==
  IsSearch =>
    \A i \in 1..(Len(ret.value) - 1) :
      ret.value[i].relevance >= ret.value[i + 1].relevance

\* the scores came out of the scan in another order than the ranked one
C6_SortReordered ==
  /\ IsSearch
  /\ Len(ret.value) >= 3
  /\ LET scored == ScoredSubtopics(index, ret.keywords)
     IN scored[1].v < scored[2].v

(***************************************************************************)
(* C7  A listed subtopic's score is 5 times the number of phrase windows   *)
(* that are keys mapping to it, plus the number of tokens that are keys    *)
(* mapping to it, plus 10 when a token is a word of its topic name; the    *)
(* tokens neutron star mass limit score Neutron Stars / Mass Limits 20.    *)
(***************************************************************************)
PhraseHits(idx, q, key) ==
  Cardinality({w \in Windows(q) : key \in MappedTo(idx, WindowKey(q, w))})

TokenHits(idx, q, key) ==
  Cardinality({i \in 1..Len(q) : key \in MappedTo(idx, q[i])})

NameBoost(q, key) ==
  IF \E i \in 1..Len(q) : \E j \in 1..Len(key[1]) : q[i] = Lower(key[1][j])
    THEN 10 ELSE 0

GoldenQuery == <<"neutron", "star", "mass", "limit">>

C7_ScoreArithmetic ==
  IsSearch =>
    /\ \A i \in 1..Len(ret.value) :
         ret.value[i].relevance
           = 5 * PhraseHits(index, ret.keywords, KeyOf(ret.value[i]))
             + TokenHits(index, ret.keywords, KeyOf(ret.value[i]))
             + NameBoost(ret.keywords, KeyOf(ret.value[i]))
    /\ ret.keywords = GoldenQuery
         => \E i \in 1..Len(ret.value) :
              /\ KeyOf(ret.value[i]) = FullKey(NeutronStars, MassLimits)
              /\ ret.value[i].relevance = 20

C7_Golden ==
  /\ IsSearch
  /\ ret.keywords = GoldenQuery
  /\ MapGet(index.subtopics, FullKey(NeutronStars, MassLimits)).keywords
       = <<"neutron star", "mass limit">>
  /\ ret.value[1] = [topic |-> NeutronStars, subtopic |-> MassLimits,
                     relevance |-> 20]

(***************************************************************************)
(* C8  A subtopic one of whose keywords equals a token of the query is     *)
(* listed with a score above 0.                                            *)
(***************************************************************************)
C8_KeywordTokenListed ==
  IsSearch =>
    \A s \in 1..Len(index.subtopics) :
      (\E i \in 1..Len(ret.keywords) :
         ret.keywords[i] \in Range(index.subtopics[s].v.keywords))
      => \E r \in 1..Len(ret.value) :
           /\ KeyOf(ret.value[r]) = index.subtopics[s].k
           /\ ret.value[r].relevance > 0

\* a query whose only hit is a token that is a keyword
C8_TokenHit ==
  /\ IsSearch
  /\ ret.keywords = <<"mass", "pulsar", "star">>
  /\ "pulsar" \in Range(MapGet(index.subtopics, FullKey(NeutronStars, Pulsars)).keywords)
  /\ Listed(ret.value, FullKey(NeutronStars, Pulsars), 1)

(***************************************************************************)
(* C9  As claimed: every query string that yields no token gets the        *)
(* no-signal response, every query with tokens and no Keyword Index hit    *)
(* gets the no-match response; the two differ and neither is an error.     *)
(***************************************************************************)
\* no phrase window and no token of the list is a key of the Keyword Index
NoIndexHit(idx, q) ==
  /\ \A w \in Windows(q) : ~MapHas(idx.keywordIndex, WindowKey(q, w))
  /\ \A i \in 1..Len(q) : ~MapHas(idx.keywordIndex, q[i])

IsNoSignal(r) ==
  /\ r.status = 200
  /\ r.message = "No keywords extracted from claim"
  /\ r.topic = Null /\ r.subtopic = Null /\ r.sources = <<>>

IsNoMatch(r) ==
  /\ r.status = 200
  /\ r.message = "No matching subtopics found"
  /\ r.topic = Null /\ r.subtopic = Null /\ r.sources = <<>>

\* the outcome of a handled query string, index being the one it was run on
QueryOutcome(idx, claim, r) ==
  LET q == ExtractKeywords(claim)
  IN /\ q = <<>> => IsNoSignal(r)
     /\ (q # <<>> /\ NoIndexHit(idx, q)) => IsNoMatch(r)
     /\ ~(IsNoSignal(r) /\ IsNoMatch(r))

C10_AtMostLimit ==
  IsGetSources =>
    /\ Len(ret.value) <= ret.limit
    /\ \A i \in 1..Len(ret.value) :
         ret.value[i].topic = ret.topic /\ ret.value[i].subtopic = ret.subtopic
    /\ ~MapHas(index.subtopics, FullKey(ret.topic, ret.subtopic))
         => ret.value = <<>>

(***************************************************************************)
(* C11  getSources returns the sources of a subtopic in the relative order *)
(* of that subtopic's source list in the data the index was built from,    *)
(* also when a source identifier occurs under more than one subtopic.      *)
(***************************************************************************)
\* the source list of the subtopic in the data given to the build
DataSources(key) ==
  IF HasRecord(key)
    THEN files[FileIdx(files, TopicDirName(key[1]),
                       SubtopicFileName(key[2]))].data.sources
    ELSE <<>>

\* where the data's list names the source
DataPlace(list, s) ==
  CHOOSE p \in 1..Len(list) : SourceId(list[p]) = SourceId(s)

C11_SourcesInDataOrder ==
  IsGetSources =>
    LET list == DataSources(FullKey(ret.topic, ret.subtopic))
    IN \A i, j \in 1..Len(ret.value) :
         i < j => /\ \E p \in 1..Len(list) : SourceId(list[p]) = SourceId(ret.value[i])
                  /\ \E p \in 1..Len(list) : SourceId(list[p]) = SourceId(ret.value[j])
                  /\ DataPlace(list, ret.value[i]) < DataPlace(list, ret.value[j])

(***************************************************************************)
(* C12  A second addKeywordsToSubtopic call with the same topic, subtopic  *)
(* and keyword batch leaves the stored keyword lists as the first call     *)
(* left them, and a call never makes a list that named no keyword twice    *)
(* name one twice.                                                         *)
(***************************************************************************)
NoRepeat(s) == \A i, j \in 1..Len(s) : s[i] = s[j] => i = j

\* the keyword lists of the store, file by file
StoredLists(fs) == [i \in 1..Len(fs) |-> fs[i].data.keywords]

C12_IdempotentNoDuplicates ==
  [][ret'.op = "addKeywordsToSubtopic"
       => LET again == addKeywordsToSubtopic(World', ret'.topic, ret'.subtopic,
                                             ret'.keywords)
          IN /\ StoredLists(again.files) = StoredLists(files')
             /\ \A i \in 1..Len(files) :
                  NoRepeat(files[i].data.keywords)
                    => /\ NoRepeat(files'[i].data.keywords)
                       /\ NoRepeat(again.files[i].data.keywords)]_vars

(***************************************************************************)
(* C13  When the topic data handed to updateTopic is the data the index    *)
(* holds for the topic with one new keyword k appended to one subtopic S,  *)
(* then after the call classify of [k] lists S, every sibling subtopic of  *)
(* the topic is mapped to by the same Keyword Index keys as before, and    *)
(* every query without k gives each sibling the score it had before.       *)
(***************************************************************************)
\* the Keyword Index keys that map to the subtopic
KeysOf(idx, key) ==
  {idx.keywordIndex[i].k : i \in {j \in 1..Len(idx.keywordIndex) :
                                    key \in Range(idx.keywordIndex[j].v)}}

\* the score classify gives the subtopic, 0 when it does not list it
ScoreOf(idx, q, key) ==
  LET ranked == searchByKeywords(idx, q)
      at == {i \in 1..Len(ranked) : KeyOf(ranked[i]) = key}
  IN IF at = {} THEN 0 ELSE ranked[CHOOSE i \in at : TRUE].relevance

\* the data is what the index holds for the topic, with keyword k new at the
\* end of the list of its p-th subtopic
GainsKeyword(idx, topicData, p, k) ==
  LET subs == topicData.subtopics
      T == topicData.topic
      Before(i) == IF i = p THEN SubSeq(subs[i].keywords, 1,
                                        Len(subs[i].keywords) - 1)
                   ELSE subs[i].keywords
  IN /\ p \in 1..Len(subs)
     /\ Len(subs[p].keywords) > 0
     /\ k = subs[p].keywords[Len(subs[p].keywords)]
     /\ k \notin Range(Before(p))
     /\ \A i, j \in 1..Len(subs) : subs[i].name = subs[j].name => i = j
     /\ {e.k : e \in {x \in Range(idx.subtopics) : x.k[1] = T}}
          = {FullKey(T, subs[i].name) : i \in 1..Len(subs)}
     /\ \A i \in 1..Len(subs) :
          /\ MapGet(idx.subtopics, FullKey(T, subs[i].name)).keywords = Before(i)
          /\ KeysOf(idx, FullKey(T, subs[i].name)) = Range(Before(i))

C13_ReloadKeepsSiblings ==
  [][\A p \in 1..2 : \A k \in Tokens :
       ( /\ ret'.op = "updateTopic"
         /\ GainsKeyword(index, ret'.value, p, k) )
       => LET T == ret'.value.topic
              subs == ret'.value.subtopics
          IN /\ Listed(searchByKeywords(index', <<k>>),
                       FullKey(T, subs[p].name), 1)
             /\ \A i \in 1..Len(subs) :
                  i # p =>
                    /\ KeysOf(index', FullKey(T, subs[i].name))
                         = KeysOf(index, FullKey(T, subs[i].name))
                    /\ \A q \in SeqsUpTo(Tokens, MaxProbeWords) :
                         k \notin Range(q)
                           => ScoreOf(index', q, FullKey(T, subs[i].name))
                                = ScoreOf(index, q, FullKey(T, subs[i].name))]_vars

\* Mass Limits gained "mass" and the reload left Pulsars as it was
C13_SiblingKept ==
  /\ ret.op = "updateTopic"
  /\ ret.value.topic = NeutronStars
  /\ Len(ret.value.subtopics) = 2
  /\ ret.value.subtopics[1].name = MassLimits
  /\ ret.value.subtopics[1].keywords = <<"neutron star", "mass limit", "mass">>
  /\ ret.value.subtopics[2].keywords = <<"pulsar", "neutron star">>
  /\ MappedTo(index, "mass") = {FullKey(NeutronStars, MassLimits)}
  /\ KeysOf(index, FullKey(NeutronStars, Pulsars)) = {"pulsar", "neutron star"}

(***************************************************************************)
(* C14  As claimed: a recordQuery call puts token t into the stored        *)
(* keyword list of a subtopic if and only if, in the log as the call left  *)
(* it, the subtopic's bucket has at least 3 entries, at least 0.6 of them  *)
(* contain t (an entry counts once, however often it repeats t), t has 3   *)
(* or more characters, t was not in the list, and the list has fewer than  *)
(* 50 keywords when t's turn comes.  Stated for subtopics that have a      *)
(* record in the store.                                                    *)
(***************************************************************************)
\* the entries of the log filed under the subtopic
Bucket(log, key) ==
  SelectSeq(log, LAMBDA e : FullKey(e.topic, e.subtopic) = key)

\* at least 0.6 of the entries of the bucket contain t
InMostEntries(bucket, t) ==
  5 * Cardinality({i \in 1..Len(bucket) : t \in Range(bucket[i].keywords)})
    >= 3 * Len(bucket)

\* t passes the tests that do not depend on the other tokens
Qualifies(bucket, list, t) ==
  /\ Len(bucket) >= 3
  /\ InMostEntries(bucket, t)
  /\ Len(t) >= 3
  /\ t \notin Range(list)

\* where the bucket first names the token
FirstNamed(bucket, t) ==
  LET all == QueryKeywords(bucket)
  IN CHOOSE p \in 1..Len(all) : all[p] = t /\ \A q \in 1..(p - 1) : all[q] # t

\* the qualifying tokens whose turn comes before t's
AheadOf(bucket, list, t) ==
  {u \in Range(QueryKeywords(bucket)) :
     /\ Qualifies(bucket, list, u)
     /\ FirstNamed(bucket, u) < FirstNamed(bucket, t)}

C14_PromotedIffFrequent ==
  [][ret'.op = "recordQuery"
       => \A key \in LearnBucketsIn :
            HasRecord(key) =>
              \A t \in Range(QueryKeywords(Bucket(learningLog', key))) :
                ( /\ t \in Range(StoreKeywords(key)')
                  /\ t \notin Range(StoreKeywords(key)) )
                <=> ( /\ Qualifies(Bucket(learningLog', key), StoreKeywords(key), t)
                      /\ Len(StoreKeywords(key))
                           + Cardinality(AheadOf(Bucket(learningLog', key),
                                                 StoreKeywords(key), t))
                           < 50 )]_vars

(***************************************************************************)
(* C15  A recordQuery call that leaves a subtopic's bucket with fewer than *)
(* 3 entries makes no addKeywordsToSubtopic call for that subtopic and     *)
(* leaves its keyword list in the Taxonomy Store as it was, also when the  *)
(* log holds 3 or more entries of other buckets.                           *)
(***************************************************************************)
\* the subtopics of the store and of the calls
SubtopicKeys == LearnBucketsIn \cup {FullKey(NeutronStars, MassLimits)}

\* the trace names a call of op for the subtopic
CalledFor(tr, op, key) ==
  \E i \in 1..Len(tr) : tr[i].op = op /\ FullKey(tr[i].topic, tr[i].subtopic) = key

C15_SmallBucketUntouched ==
  [][ret'.op = "recordQuery"
       => \A key \in SubtopicKeys :
            Len(Bucket(learningLog', key)) < 3
              => /\ ~CalledFor(trace', "addKeywordsToSubtopic", key)
                 /\ HasRecord(key) => StoreKeywords(key)' = StoreKeywords(key)]_vars

\* the fourth call was the first for Pulsars; the cycle it started worked on
\* Event Horizons, which has three entries, and left Pulsars alone
C15_OtherBucketLearned ==
  /\ ret.op = "recordQuery"
  /\ ret.topic = NeutronStars /\ ret.subtopic = Pulsars
  /\ Len(learningLog) = 4
  /\ Len(Bucket(learningLog, FullKey(BlackHoles, EventHorizons))) = 3
  /\ Len(Bucket(learningLog, FullKey(NeutronStars, Pulsars))) = 1
  /\ CalledFor(trace, "addKeywordsToSubtopic", FullKey(BlackHoles, EventHorizons))
  /\ "schwarzschild" \in Range(StoreKeywords(FullKey(BlackHoles, EventHorizons)))
  /\ StoreKeywords(FullKey(NeutronStars, Pulsars)) = <<"pulsar", "neutron star">>

(***************************************************************************)
(* C16  After every recordQuery call the learning log holds at most 100    *)
(* records, and they are the most recently appended ones in append order,  *)
(* also when the learning cycle the call started failed part-way.          *)
(***************************************************************************)
\* the last n elements of a sequence
LastOf(s, n) == IF Len(s) > n THEN SubSeq(s, Len(s) - n + 1, Len(s)) ELSE s

\* the record a recordQuery call appends
RecordOf(call, time) ==
  [timestamp |-> time, keywords |-> call.keywords, topic |-> call.topic,
   subtopic |-> call.subtopic, relevance |-> 1]

C16_RollingLog ==
  [][ret'.op = "recordQuery"
       => /\ Len(learningLog') <= 100
          /\ learningLog'
               = LastOf(Append(learningLog, RecordOf(ret', clock)), 100)]_vars

(***************************************************************************)
(* C17  When a learning cycle calls addKeywordsToSubtopic for a subtopic   *)
(* that has no record in the Taxonomy Store, a message about it is logged, *)
(* no error is raised, no record appears and the index keeps what it held  *)
(* for the subtopic, and the same cycle still promotes, for every other    *)
(* bucket of 3 or more entries, the tokens all its entries contain.        *)
(***************************************************************************)
\* the trace holds a console line about the subtopic
LoggedFor(tr, key) ==
  \E i \in 1..Len(tr) :
    /\ tr[i].op \in {"console.log", "console.error"}
    /\ FullKey(tr[i].topic, tr[i].subtopic) = key

\* the tokens of three or more characters that every entry of the bucket has
InEveryEntry(bucket) ==
  {t \in Range(QueryKeywords(bucket)) :
     /\ Len(t) >= 3
     /\ \A i \in 1..Len(bucket) : t \in Range(bucket[i].keywords)}

\* the call was abandoned without harm and the rest of the cycle ran
AbandonedQuietly(key) ==
  /\ ~ret'.threw
  /\ ~HasRecord(key)'
  /\ Len(files') = Len(files)
  /\ MapHas(index'.subtopics, key) <=> MapHas(index.subtopics, key)
  /\ KeysOf(index', key) = KeysOf(index, key)
  /\ \A other \in SubtopicKeys \ {key} :
       (HasRecord(other) /\ Len(Bucket(learningLog', other)) >= 3)
         => \/ Len(StoreKeywords(other)') = 50
            \/ InEveryEntry(Bucket(learningLog', other))
                 \subseteq Range(StoreKeywords(other)')

C17_MissingRecordLogged ==
  [][ret'.op = "recordQuery"
       => \A key \in SubtopicKeys :
            (~HasRecord(key) /\ CalledFor(trace', "addKeywordsToSubtopic", key))
              => /\ LoggedFor(trace', key)
                 /\ AbandonedQuietly(key)]_vars

(***************************************************************************)
(* C18  When the record of a subtopic cannot be written during a learning  *)
(* cycle, the cycle is not aborted: no exception leaves recordQuery, the   *)
(* log is trimmed to 100 records, and every other bucket of 3 or more      *)
(* entries is still worked on.                                             *)
(***************************************************************************)
\* the cycle has keywords to add to the subtopic and may not write its record
CannotPersist(fs, log, key) ==
  /\ FileExists(fs, TopicDirName(key[1]), SubtopicFileName(key[2]))
  /\ LET f == fs[FileIdx(fs, TopicDirName(key[1]), SubtopicFileName(key[2]))]
     IN /\ ~f.writable
        /\ Len(f.data.keywords) < 50
        /\ Len(Bucket(log, key)) >= 3
        /\ ~(InEveryEntry(Bucket(log, key)) \subseteq Range(f.data.keywords))

C18_FailureDoesNotAbort ==
  [][ret'.op = "recordQuery"
       => \A key \in SubtopicKeys :
            CannotPersist(files, Append(learningLog, RecordOf(ret', clock)), key)
              => /\ ~ret'.threw
                 /\ Len(learningLog') <= 100
                 /\ \A other \in SubtopicKeys \ {key} :
                      ( /\ Len(Bucket(learningLog', other)) >= 3
                        /\ InEveryEntry(Bucket(learningLog', other)) # {} )
                      => CalledFor(trace', "addKeywordsToSubtopic", other)]_vars

(***************************************************************************)
(* C19  For every query that classification matched to a subtopic, the     *)
(* response is the one computed from the classification made before        *)
(* recordQuery ran: the top subtopic of the index as the request found it, *)
(* its score and its sources, whatever recordQuery and the learning cycle  *)
(* do, failing included.                                                   *)
(***************************************************************************)
\* the response the classification of the claim on the index calls for
ClassifiedResponse(idx, claim) ==
  LET topMatch == searchByKeywords(idx, ExtractKeywords(claim))[1]
      sources == getSourcesBySubtopic(idx, topMatch.topic, topMatch.subtopic,
                                      ServedLimit)
  IN [status |-> 200, topic |-> topMatch.topic, subtopic |-> topMatch.subtopic,
      relevance |-> topMatch.relevance, sources |-> sources,
      totalSources |-> Len(sources), message |-> FoundMessage]

\* the request is a query string that classification matches to a subtopic
Classified(idx, req) ==
  /\ req.isString
  /\ req.claim # <<>>
  /\ ExtractKeywords(req.claim) # <<>>
  /\ searchByKeywords(idx, ExtractKeywords(req.claim)) # <<>>

C19_ResponseBeforeRecording ==
  [][(ret'.op = "getSourcesHandler" /\ Classified(index, ret'.value))
       => res' = ClassifiedResponse(index, ret'.value.claim)]_vars

(***************************************************************************)
(* C20  A handled request calls recordQuery exactly once when              *)
(* classification returned a subtopic, with the filtered tokens of the     *)
(* query and the topic, subtopic and score of the top-ranked subtopic, and *)
(* after the calls of classify and getSources; it calls recordQuery not at *)
(* all for a no-signal, a no-match or an invalid request.                  *)
(***************************************************************************)
\* where the trace names calls of op
CallsOf(tr, op) == {i \in 1..Len(tr) : tr[i].op = op}

RecordedOnceAfterServing(idx, req, tr) ==
  LET keywords == ExtractKeywords(req.claim)
      topMatch == searchByKeywords(idx, keywords)[1]
  IN /\ Cardinality(CallsOf(tr, "recordQuery")) = 1
     /\ \A r \in CallsOf(tr, "recordQuery") :
          /\ tr[r].keywords = keywords
          /\ tr[r].topic = topMatch.topic
          /\ tr[r].subtopic = topMatch.subtopic
          /\ tr[r].relevance = topMatch.relevance
          /\ \E s \in CallsOf(tr, "searchByKeywords") : s < r
          /\ \E g \in CallsOf(tr, "getSourcesBySubtopic") : g < r

C20_RecordedOncePerServedQuery ==
  [][ret'.op = "getSourcesHandler"
       => IF Classified(index, ret'.value)
            THEN RecordedOnceAfterServing(index, ret'.value, trace')
            ELSE CallsOf(trace', "recordQuery") = {}]_vars

\* a served query: classify, getSources, recordQuery, in this order
C20_ServedThenRecorded ==
  /\ ret.op = "getSourcesHandler"
  /\ ret.value.claim = <<"Neutron", "star", "mass", "limit">>
  /\ res.status = 200
  /\ res.subtopic = MassLimits
  /\ Len(trace) >= 3
  /\ trace[1].op = "searchByKeywords"
  /\ trace[2].op = "getSourcesBySubtopic"
  /\ trace[3].op = "recordQuery"
  /\ trace[3].keywords = <<"neutron", "star", "mass", "limit">>
  /\ trace[3].relevance = 20

(***************************************************************************)
(* C21                                                                     *)
(***************************************************************************)
\* a subtopic record with both of its lists
WellFormed(record) == {"keywords", "sources"} \subseteq DOMAIN record

\* the places <<t, s>> of the subtopic records in a list of topics
RecordPlaces(topics) ==
  UNION { { <<t, s>> : s \in 1..Len(topics[t].subtopics) } :
          t \in 1..Len(topics) }

\* the subtopic is in the Subtopic map with the keywords given, and each of
\* them lists it in the Keyword Index
Indexed(idx, key, keywords) ==
  /\ MapHas(idx.subtopics, key)
  /\ "keywords" \in DOMAIN MapGet(idx.subtopics, key)
  /\ MapGet(idx.subtopics, key).keywords = keywords
  /\ \A i \in 1..Len(keywords) : key \in MappedTo(idx, keywords[i])

\* the build counted n skipped records in its stats
SkippedCounted(idx, n) ==
  /\ "skippedRecords" \in DOMAIN idx.stats
  /\ idx.stats.skippedRecords = n

\* buildFromJSON was called on data with a malformed record
BuiltFromMalformed ==
  /\ ret.op = "buildFromJSON"
  /\ \E p \in RecordPlaces(ret.value) :
       ~WellFormed(ret.value[p[1]].subtopics[p[2]])

\* the server started on a store with a malformed record file
BootedOnMalformed ==
  /\ ret.op = "loadIndex"
  /\ \E i \in 1..Len(files) : ~WellFormed(files[i].data)

\* C21: a build that met a malformed subtopic record (one without its keyword
\* list or without its source list) did not abort: it skipped that record,
\* counted it in the skipped-record counter of the build stats, and indexed
\* every well-formed record
C21_MalformedRecordSkipped ==
  /\ BuiltFromMalformed =>
       LET places == RecordPlaces(ret.value)
           Rec(p) == ret.value[p[1]].subtopics[p[2]]
           Key(p) == FullKey(ret.value[p[1]].topic, Rec(p).name)
       IN /\ ~ret.threw
          /\ SkippedCounted(index,
                            Cardinality({ p \in places : ~WellFormed(Rec(p)) }))
          /\ \A p \in places :
               IF WellFormed(Rec(p))
                 THEN Indexed(index, Key(p), Rec(p).keywords)
               ELSE ~MapHas(index.subtopics, Key(p))
  /\ BootedOnMalformed =>
       LET Key(i) == FullKey(files[i].data.topic, files[i].data.subtopic)
       IN /\ ~ret.threw
          /\ SkippedCounted(index,
                            Cardinality({ i \in 1..Len(files) :
                                            ~WellFormed(files[i].data) }))
          /\ \A i \in 1..Len(files) :
               IF WellFormed(files[i].data)
                 THEN Indexed(index, Key(i), files[i].data.keywords)
               ELSE ~MapHas(index.subtopics, Key(i))

(***************************************************************************)
(* C22                                                                     *)
(***************************************************************************)
\* the last operation built the index from well-formed data
BuiltIndex ==
  /\ ret.op \in {"buildFromJSON", "loadIndex"}
  /\ ~ret.threw

\* the queries the two indexes are asked
ProbeQueries == SeqsUpTo(Tokens, MaxProbeWords)

AddedKeyword(key) ==
  /\ ret'.op = "addKeywordsToSubtopic"
  /\ FullKey(ret'.topic, ret'.subtopic) = key
  /\ HasRecord(key)
  /\ Len(StoreKeywords(key)') > Len(StoreKeywords(key))

\* one write of the record and one reload, in that order; the reload is of
\* the owning topic and the list written is the list of the record
WrittenThenReloadedOnce(tr, key, stored) ==
  /\ Cardinality(CallsOf(tr, "writeFileSync")) = 1
  /\ Cardinality(CallsOf(tr, "reloadTopic")) = 1
  /\ \A wr \in CallsOf(tr, "writeFileSync") : \A rl \in CallsOf(tr, "reloadTopic") :
       /\ wr < rl
       /\ FullKey(tr[wr].topic, tr[wr].subtopic) = key
       /\ tr[wr].keywords = stored
       /\ tr[rl].topic = key[1]

\* C23: whenever addKeywordsToSubtopic adds a keyword, the keyword list is
\* written to the store record before the reload is invoked, the reload is
\* invoked exactly once and for the owning topic only, and the view the
\* reload publishes holds the keyword list just written
C23_WriteBeforeReload ==
  [][\A key \in AddBucketsIn :
       AddedKeyword(key)
         => /\ WrittenThenReloadedOnce(trace', key, StoreKeywords(key)')
            /\ MapHas(index'.subtopics, key)
            /\ MapGet(index'.subtopics, key).keywords = StoreKeywords(key)']_vars

(***************************************************************************)
(* C24                                                                     *)
(***************************************************************************)
\* C24: searchByKeywords and getSourcesBySubtopic are pure reads: a call of
\* either leaves the Keyword Index, the Subtopic map, the Topic map, the
\* Source map, the stats and the learning log as they were, and neither
\* reads nor writes the Taxonomy Store
C24_ReadsArePure ==
  [][ret'.op \in {"searchByKeywords", "getSourcesBySubtopic"}
       => /\ index'.keywordIndex = index.keywordIndex
          /\ index'.subtopics = index.subtopics
          /\ index'.topics = index.topics
          /\ index'.sources = index.sources
          /\ index'.stats = index.stats
          /\ learningLog' = learningLog
          /\ files' = files
          /\ topicFiles' = topicFiles
          /\ trace' = trace]_vars

\* a search of two tokens whose lookups all missed the Keyword Index
C24_SearchMissed ==
  /\ IsSearch
  /\ Len(ret.keywords) = 2
  /\ ret.value = <<>>

(***************************************************************************)
(* C25                                                                     *)
(***************************************************************************)
\* the keys of the Keyword Index and the keywords of the Subtopic map
AllKeywords(idx) ==
  Range(MapKeys(idx.keywordIndex))
    \cup UNION { Range(idx.subtopics[i].v.keywords) : i \in 1..Len(idx.subtopics) }

\* C25: after the build and after every updateTopic, the Keyword Index is
\* exactly the inverse of the Subtopic map: a subtopic key is in the set of a
\* keyword if and only if the Subtopic map entry of that key lists the
\* keyword, also when the reloaded data omits a subtopic the build had
C25_IndexIsInverseOfMap ==
  \A keyword \in AllKeywords(index) :
    /\ \A key \in MappedTo(index, keyword) :
         /\ MapHas(index.subtopics, key)
         /\ keyword \in Range(MapGet(index.subtopics, key).keywords)
    /\ \A i \in 1..Len(index.subtopics) :
         keyword \in Range(index.subtopics[i].v.keywords)
           => index.subtopics[i].k \in MappedTo(index, keyword)

(***************************************************************************)
(* C26                                                                     *)
(***************************************************************************)
\* a call with these keywords has nothing to add to the record of the
\* subtopic: the list holds them all, or holds 50 keywords already
NothingToAdd(key, newKeywords) ==
  /\ HasRecord(key)
  /\ \/ Range(newKeywords) \subseteq Range(StoreKeywords(key))
     \/ Len(StoreKeywords(key)) >= maxKeywordsPerSubtopic

\* C26: a call of addKeywordsToSubtopic that adds nothing, because every
\* proposed keyword is in the list or the list holds 50 already, is a no-op:
\* the record is not written, the reload is not invoked, the index is
\* unchanged and no error is raised
C26_NothingAddedIsNoOp ==
  [][\A key \in AddBucketsIn :
       ( /\ ret'.op = "addKeywordsToSubtopic"
         /\ FullKey(ret'.topic, ret'.subtopic) = key
         /\ NothingToAdd(key, ret'.keywords) )
       => /\ files' = files
          /\ index' = index
          /\ CallsOf(trace', "writeFileSync") = {}
          /\ CallsOf(trace', "reloadTopic") = {}
          /\ ~ret'.threw]_vars

\* a call that proposed a new keyword for a list of 50 and wrote nothing
C26_FullListLeftAlone ==
  /\ ret.op = "addKeywordsToSubtopic"
  /\ FullKey(ret.topic, ret.subtopic) = FullKey(BlackHoles, EventHorizons)
  /\ Len(StoreKeywords(FullKey(BlackHoles, EventHorizons))) = maxKeywordsPerSubtopic
  /\ "kerr" \in Range(ret.keywords)
  /\ "kerr" \notin Range(StoreKeywords(FullKey(BlackHoles, EventHorizons)))
  /\ CallsOf(trace, "addKeywordsToSubtopic") # {}
  /\ CallsOf(trace, "writeFileSync") = {}

(***************************************************************************)
(* C27                                                                     *)
(***************************************************************************)
\* the log with the record of the call just made appended
Pushed == Append(learningLog, RecordOf(ret', clock))

\* s is what is left of t after entries were taken from its front
SuffixOf(s, t) == Len(s) <= Len(t) /\ s = LastOf(t, Len(s))

\* the learning cycle evaluated the bucket: it called addKeywordsToSubtopic
\* for it with the keywords that pass the frequency and length tests
Evaluated(tr, key, bucket) ==
  \E i \in CallsOf(tr, "addKeywordsToSubtopic") :
    /\ FullKey(tr[i].topic, tr[i].subtopic) = key
    /\ tr[i].keywords = FrequentKeywords(bucket)

\* C27: once the learning log holds at least 3 entries every recordQuery
\* runs a learning cycle, and the cycle evaluates every bucket that has 3 or
\* more entries, the buckets of earlier cycles included; a bucket gains one
\* entry per recordQuery for it and loses entries only from the front of the
\* log, so no bucket ever stops being evaluated
C27_EveryCycleEvaluatesEveryBucket ==
  [][ret'.op = "recordQuery"
       => /\ Len(Pushed) >= minQueryCount
               <=> Cardinality(CallsOf(trace', "learnFromQueries")) = 1
          /\ SuffixOf(learningLog', Pushed)
          /\ \A key \in SubtopicKeys :
               ( /\ Len(Bucket(Pushed, key)) >= minQueryCount
                 /\ FrequentKeywords(Bucket(Pushed, key)) # <<>> )
               => Evaluated(trace', key, Bucket(Pushed, key))]_vars

(***************************************************************************)
(* C28                                                                     *)
(***************************************************************************)
\* the score of the subtopic before the boost
BaseScore(idx, q, key) == 5 * PhraseHits(idx, q, key) + TokenHits(idx, q, key)

\* where the query has a token that is, case aside, a word of the topic name
MatchingTokens(q, topic) ==
  { i \in 1..Len(q) : \E j \in 1..Len(topic) : Lower(q[i]) = Lower(topic[j]) }

\* C28: the topic-name boost goes only to subtopics whose base score is not
\* zero; it adds exactly 10 when at least one query token equals, case
\* aside, a word of the topic name and 0 otherwise, however many tokens match
\* and however often a token is repeated
C28_FlatBoost ==
  IsSearch =>
    /\ \A i \in 1..Len(ret.value) :
         LET key == KeyOf(ret.value[i])
             base == BaseScore(index, ret.keywords, key)
         IN /\ base > 0
            /\ ret.value[i].relevance - base
                 = IF MatchingTokens(ret.keywords, key[1]) # {} THEN 10 ELSE 0
    /\ \A s \in 1..Len(index.subtopics) :
         BaseScore(index, ret.keywords, index.subtopics[s].k) = 0
           => \A i \in 1..Len(ret.value) :
                KeyOf(ret.value[i]) # index.subtopics[s].k

\* three tokens of the query match a word of the topic name Neutron Stars:
\* Pulsars, with a base score of 1, is listed with 11, and Mass Limits, with
\* a base score of 0, is not listed
C28_BoostedOnce ==
  /\ IsSearch
  /\ ret.keywords = <<"neutron", "neutron", "pulsar", "neutron">>
  /\ ret.value = <<[topic |-> NeutronStars, subtopic |-> Pulsars,
                    relevance |-> 11]>>

(***************************************************************************)
(* C29                                                                     *)
(***************************************************************************)
\* the sum of sourceCount over the first n entries of the Subtopic map
RECURSIVE SourceCountSum(_, _)
SourceCountSum(subtopics, n) ==
  IF n = 0 THEN 0
  ELSE subtopics[n].v.sourceCount + SourceCountSum(subtopics, n - 1)

\* C29: for every subtopic of the Subtopic map, getSourcesBySubtopic with a
\* limit of at least the subtopic's size returns as many sources as the
\* sourceCount of the subtopic, and the totalSources of the build stats is
\* the sum of sourceCount over the subtopics, also when a source identifier
\* appears in two subtopics
C29_SourceCountsAgree ==
  /\ \A s \in 1..Len(index.subtopics) :
       LET e == index.subtopics[s]
       IN \A limit \in {e.v.sourceCount, e.v.sourceCount + 1} :
            Len(getSourcesBySubtopic(index, e.v.topic, e.v.name, limit))
              = e.v.sourceCount
  /\ index.stats.totalSources
       = SourceCountSum(index.subtopics, Len(index.subtopics))

(***************************************************************************)
(* C30                                                                     *)
(***************************************************************************)
\* the Subtopic map entries of the topics other than topicName
OtherEntries(idx, topicName) ==
  { e \in Range(idx.subtopics) : e.k[1] # topicName }

\* updateTopic left alone what belongs to the other topics and to no topic
OthersUntouched(old, new, topicName) ==
  /\ OtherEntries(new, topicName) = OtherEntries(old, topicName)
  /\ \A e \in OtherEntries(old, topicName) : KeysOf(new, e.k) = KeysOf(old, e.k)
  /\ new.sources = old.sources
  /\ new.topics = old.topics
  /\ new.stats = old.stats

\* C30: updateTopic of topic T changes only T's part of the index: the
\* Keyword Index keys of every subtopic of another topic and the Subtopic
\* map entries of the other topics are unchanged, the Source map, the Topic
\* map and the build stats are unchanged, and the sourceCount of T's own
\* subtopics is unchanged as well
C30_OnlyTheTopicChanges ==
  [][ret'.op = "updateTopic"
       => /\ OthersUntouched(index, index', ret'.topic)
          /\ \A e \in Range(index.subtopics) :
               (e.k[1] = ret'.topic /\ MapHas(index'.subtopics, e.k))
                 => MapGet(index'.subtopics, e.k).sourceCount
                      = e.v.sourceCount]_vars

====
